---------------------------- MODULE Spec2Model ----------------------------
(***************************************************************************)
(* buu-assets (dist/buu-assets.js): the asset resolution and polling       *)
(* engine.  The module-level state (_cache, _activePolls, _GLTFLoader),    *)
(* the closures created by loadModel/_startModelLoad and loadWorld, the    *)
(* timers they arm with setTimeout and the promise callbacks of their      *)
(* fetches and GLB loads are modelled as one state machine.  One action is *)
(* one run-to-completion job of the JavaScript event loop: a public call,  *)
(* a promise callback, or a timer callback.                                *)
(*                                                                         *)
(* Time is discrete; one unit is 1000 ms.  A timer fires exactly when its  *)
(* delay has elapsed (Tick is disabled while a timer is due); the latency  *)
(* of a fetch or of a GLB load is any number of units, zero included.      *)
(* Callbacks supplied by the caller are assumed not to throw and not to    *)
(* call back into the library.                                             *)
(***************************************************************************)
EXTENDS Integers, Sequences, FiniteSets, TLC

VARIABLES
    cache,        \* _cache: cache key -> entry | NoEntry
    activePolls,  \* _activePolls: registry key -> timer handle | NoHandle
    tasks,        \* one closure (resolution task) per load call that passed the cache check
    gltfLoader,   \* a GLTFLoader class is available (_GLTFLoader or window.THREE.GLTFLoader)
    three,        \* window.THREE is available
    gs3d,         \* a GaussianSplats3D module is available (_GaussianSplats3D or window's)
    mode,         \* which option set the callers draw from (fixed by Init)
    ret,          \* what the load call made by the last step returned
    fired         \* the caller's callbacks the last step invoked, in order

vars == <<cache, activePolls, tasks, gltfLoader, three, gs3d, mode, ret, fired>>

---------------------------------------------------------------------------
(* Bounds and inputs *)

MaxTasks == 2          \* load calls that start a resolution task, per run

TaskIds == 1..MaxTasks

\* Time unit: 1000 ms.
DefaultPollInterval == 5      \* opts.pollInterval || 5000
DefaultMaxPollTime == 300     \* opts.maxPollTime || 300000

MaxUrls == 3           \* distinct urls a sub-record of a descriptor may carry

ModelIds == {"m"}
WorldIds == {"w"}

NULL == "NULL"         \* JavaScript null / undefined result

Min(a, b) == IF a < b THEN a ELSE b

---------------------------------------------------------------------------
(* Keys *)

\* 'model:' + modelId  (loadModel, _startModelLoad, getCachedModel)
ModelCacheKey(id) == "model:" \o id

\* 'world:' + worldId  (loadWorld: cache key and registry key alike)
WorldKey(id) == "world:" \o id

CacheKeys == {ModelCacheKey(id) : id \in ModelIds} \cup {WorldKey(id) : id \in WorldIds}

\* the registry is keyed by the bare modelId for models, by 'world:' + worldId for worlds
PollKeys == ModelIds \cup {WorldKey(id) : id \in WorldIds}

---------------------------------------------------------------------------
(* Asset descriptors (the JSON the API returns) and the URL resolvers *)

\* An optional sub-record {url: ...}.  url = "" stands for a missing, null or
\* empty url: all of them are falsy in JavaScript.
Absent == [present |-> FALSE, url |-> ""]
Media(u) == [present |-> TRUE, url |-> u]

\* JavaScript truthiness of a string-or-missing value
Truthy(s) == s # "" /\ s # NULL

\* x && x.url
HasUrl(sub) == sub.present /\ Truthy(sub.url)

\* (x && x.url) || null
UrlOrNull(sub) == IF HasUrl(sub) THEN sub.url ELSE NULL

\* v || null, for an optional scalar (a missing one is "")
ValueOrNull(v) == IF Truthy(v) THEN v ELSE NULL

ModelData(t, o, m) == [texturedMesh |-> t, optimizedMesh |-> o, mesh |-> m]

\* variant: the ranking reversed, mesh first
resolveMeshUrlMeshFirst(modelData) ==
    IF HasUrl(modelData.mesh) THEN modelData.mesh.url
    ELSE IF HasUrl(modelData.optimizedMesh) THEN modelData.optimizedMesh.url
    ELSE IF HasUrl(modelData.texturedMesh) THEN modelData.texturedMesh.url
    ELSE NULL

resolveMeshUrl(modelData) ==
    IF HasUrl(modelData.texturedMesh) THEN modelData.texturedMesh.url
    ELSE IF HasUrl(modelData.optimizedMesh) THEN modelData.optimizedMesh.url
    ELSE IF HasUrl(modelData.mesh) THEN modelData.mesh.url
    ELSE NULL

NoSplatFiles == [present |-> FALSE, lowRes |-> Absent, mediumRes |-> Absent, highRes |-> Absent]
SplatFiles(l, m, h) == [present |-> TRUE, lowRes |-> l, mediumRes |-> m, highRes |-> h]

WorldData(sf, pano, thumb, coll, imgs, cap, name, st) ==
    [splatFiles |-> sf, panoMedia |-> pano, thumbnailMedia |-> thumb,
     colliderMesh |-> coll, inputImages |-> imgs, caption |-> cap,
     displayName |-> name, status |-> st]

\* variant: the ranking reversed, lowRes first
resolveSplatUrlLowFirst(worldData) ==
    IF worldData.splatFiles.present
    THEN IF HasUrl(worldData.splatFiles.lowRes) THEN worldData.splatFiles.lowRes.url
         ELSE IF HasUrl(worldData.splatFiles.mediumRes) THEN worldData.splatFiles.mediumRes.url
         ELSE IF HasUrl(worldData.splatFiles.highRes) THEN worldData.splatFiles.highRes.url
         ELSE NULL
    ELSE NULL

resolveSplatUrl(worldData) ==
    IF worldData.splatFiles.present
    THEN IF HasUrl(worldData.splatFiles.highRes) THEN worldData.splatFiles.highRes.url
         ELSE IF HasUrl(worldData.splatFiles.mediumRes) THEN worldData.splatFiles.mediumRes.url
         ELSE IF HasUrl(worldData.splatFiles.lowRes) THEN worldData.splatFiles.lowRes.url
         ELSE NULL
    ELSE NULL

resolveAllSplatUrls(worldData) ==
    LET files == IF worldData.splatFiles.present THEN worldData.splatFiles ELSE NoSplatFiles
    IN  [lowRes    |-> UrlOrNull(files.lowRes),
         mediumRes |-> UrlOrNull(files.mediumRes),
         highRes   |-> UrlOrNull(files.highRes)]

\* the result object loadWorld.attempt builds from one descriptor
WorldResult(worldId, worldData) ==
    [worldId         |-> worldId,
     splatUrl        |-> resolveSplatUrl(worldData),
     splats          |-> resolveAllSplatUrls(worldData),
     panoramaUrl     |-> UrlOrNull(worldData.panoMedia),
     thumbnailUrl    |-> UrlOrNull(worldData.thumbnailMedia),
     colliderMeshUrl |-> UrlOrNull(worldData.colliderMesh),
     inputImages     |-> IF worldData.inputImages.present THEN worldData.inputImages.items ELSE <<>>,
     caption         |-> ValueOrNull(worldData.caption),
     displayName     |-> ValueOrNull(worldData.displayName),
     status          |-> ValueOrNull(worldData.status),
     raw             |-> worldData]

\* variant: every result counts as ready
isReadyAlways(result) == TRUE

\* variant: only a splat url makes a world ready
isReadySplatOnly(result) == Truthy(result.splatUrl)

\* variant: only a panorama makes a world ready
isReadyPanoramaOnly(result) == Truthy(result.panoramaUrl)

\* var isReady = !!(splatUrl || result.panoramaUrl)
isReady(result) == Truthy(result.splatUrl) \/ Truthy(result.panoramaUrl)

\* The descriptors the API answers with while an asset is being generated.
ModelResponses ==
    { ModelData(Absent, Absent, Absent),
      ModelData(Absent, Media("a.glb"), Media("b.glb")) }

NoImages == [present |-> FALSE, items |-> <<>>]

WorldResponses ==
    { WorldData(NoSplatFiles, Absent, Absent, Absent, NoImages, "", "", "PENDING"),
      WorldData(SplatFiles(Media("x"), Absent, Media("z")), Absent, Media("t.png"),
                Absent, NoImages, "a world", "", "COMPLETED"),
      WorldData(NoSplatFiles, Media("p.jpg"), Absent, Absent, NoImages, "", "", "COMPLETED") }

---------------------------------------------------------------------------
(* State of the engine *)

NoEntry == [absent |-> TRUE]                 \* _cache[key] === undefined
NoHandle == [task |-> 0]                     \* _activePolls[key] === undefined
\* A handle whose timer has fired.  Timer ids are never reused, so such a handle
\* is inert (clearTimeout on it does nothing) and all of them behave alike.
FiredHandle == [task |-> -1]
NoData == [none |-> TRUE]
NoResult == [none |-> TRUE]
NullResult == [null |-> TRUE]                \* a promise resolved with null
PendingPromise == [state |-> "pending", value |-> NoResult]

\* The closure of one _startModelLoad / loadWorld call, together with the
\* group it returned (models) or the promise it returned (worlds).
\*   pc        "fetch": descriptor fetch in flight, "load": GLB load in flight,
\*             "wait": its timer is pending, "done": nothing in flight or pending
\*   elapsed   Date.now() - startTime, saturated at maxPollTime; kept at 0 when
\*             poll is false, where the code never reads it
\*   data      modelData of the attempt whose GLB load is in flight
\*   placeholderIn   placeholder.parent === group
\*   scenes    final meshes that are children of the group
\*   promise / resolved   the promise loadWorld returned and its `resolved` flag
\*   swaps / readies      calls of onSwap / onReady so far
\*   first     the closure has not got past its first attempt()
\*   steady    the number of attempts so far (calls of attempt(), i.e. fetches
\*             issued) while every fetch was answered at once, successfully
\*             and without a ready asset; 0 once that is no longer so
\*   cancelled cancelPoll, cancelAllPolls or clearCache was called for its key
\*             while its current attempt was in flight
\*   wrap      the loadWorldSplat call that waits for the promise of this
\*             closure, if there is one
NoWrap == [pc |-> "none"]

IdleTask ==
    [kind |-> "none", id |-> "", pc |-> "idle", poll |-> FALSE,
     pollInterval |-> 0, maxPollTime |-> 0, elapsed |-> 0, timerLeft |-> 0,
     data |-> NoData,
     placeholderIn |-> FALSE, scenes |-> 0, buuLoaded |-> FALSE, buuModelData |-> NoData,
     promise |-> PendingPromise, resolved |-> FALSE,
     swaps |-> 0, readies |-> 0, first |-> FALSE, steady |-> 0, cancelled |-> FALSE,
     wrap |-> NoWrap]

Live(task) == task.pc \in {"fetch", "load", "wait"}

\* the registry key a task schedules its timers under
PollKeyOf(task) ==
    CASE task.kind = "model" -> task.id
      [] task.kind = "world" -> WorldKey(task.id)
      [] OTHER -> NULL

\* the cache key a task writes
CacheKeyOf(task) == IF task.kind = "model" THEN ModelCacheKey(task.id) ELSE WorldKey(task.id)

\* the handle of the timer task t has pending (a closure has at most one)
HandleOf(t) == [task |-> t]

\* the timer behind handle h has neither fired nor been cleared
TimerPending(ts, h) ==
    /\ h # NoHandle
    /\ h # FiredHandle
    /\ ts[h.task].pc = "wait"

\* the closure has nothing in flight and nothing pending any more
Stopped(task) ==
    [task EXCEPT !.pc = "done", !.poll = FALSE, !.pollInterval = 0, !.maxPollTime = 0,
                 !.elapsed = 0, !.timerLeft = 0, !.data = NoData,
                 !.steady = 0, !.cancelled = FALSE]

\* clearTimeout(h): a pending timer never fires; a fired or cleared one is untouched
clearTimeout(ts, h) ==
    IF TimerPending(ts, h)
    THEN [ts EXCEPT ![h.task] = Stopped(@)]
    ELSE ts

\* The closures a run may create, by mode: in "short" up to MaxTasks
\* overlapping ones, in "timed" a single one.
Slots == IF mode = "short" THEN TaskIds ELSE {1}

FreeSlots == {t \in Slots : tasks[t].kind = "none"}

\* the slot the next closure takes
NextSlot == CHOOSE t \in FreeSlots : \A u \in FreeSlots : t <= u

\* v || d for a numeric option (0 stands for a missing one)
OrDefault(v, d) == IF v # 0 THEN v ELSE d

\* The options callers pass, by mode.  "timed": a ceiling of 12 units polled
\* at the default interval of 5.  Otherwise a ceiling of 2 units polled every unit.
Options ==
    IF mode = "timed"
    THEN [poll : BOOLEAN, pollInterval : {0}, maxPollTime : {12}]
    ELSE [poll : BOOLEAN, pollInterval : {1}, maxPollTime : {2}]

\* callback invocations, as recorded in `fired`
Err(msg) == [message |-> msg]
Cb(name, t, arg) == [cb |-> name, task |-> t, arg |-> arg]
NoCall == [call |-> "none"]

TypeOK ==
    /\ DOMAIN cache = CacheKeys
    /\ \A id \in ModelIds :
          \/ cache[ModelCacheKey(id)] = NoEntry
          \/ cache[ModelCacheKey(id)] \in [group : TaskIds, loaded : BOOLEAN]
    /\ \A id \in WorldIds :
          \/ cache[WorldKey(id)] = NoEntry
          \/ \E d \in WorldResponses :
                cache[WorldKey(id)] = [data |-> WorldResult(id, d), ready |-> TRUE]
    /\ DOMAIN activePolls = PollKeys
    /\ \A k \in PollKeys :
          activePolls[k] \in {NoHandle, FiredHandle} \/ activePolls[k].task \in TaskIds
    /\ DOMAIN tasks = TaskIds
    /\ \A t \in TaskIds :
          /\ tasks[t].pc \in {"idle", "fetch", "load", "wait", "done"}
          /\ tasks[t].kind = "none" <=> tasks[t].pc = "idle"
          /\ tasks[t].timerLeft > 0 => tasks[t].pc = "wait"
          /\ tasks[t].timerLeft \in 0..tasks[t].pollInterval
          /\ tasks[t].elapsed \in 0..tasks[t].maxPollTime
    /\ gltfLoader \in BOOLEAN
    /\ three \in BOOLEAN
    /\ gs3d \in BOOLEAN
    /\ mode \in {"short", "timed"}

---------------------------------------------------------------------------
(* Steps shared by the model task and the world task *)

\* variant: the poll option is not consulted
WithinBudgetIgnoresPoll(task) == task.elapsed < task.maxPollTime

\* poll && (Date.now() - startTime) < maxPollTime
WithinBudget(task) == task.poll /\ task.elapsed < task.maxPollTime

Stop(ts, t) == [ts EXCEPT ![t] = Stopped(@)]

\* variant: attempt() is called at once instead of being left to the timer
SetTimerRunsAttempt(task) ==
    [task EXCEPT !.pc = "fetch", !.data = NoData, !.first = FALSE, !.cancelled = FALSE]

\* setTimeout(attempt, pollInterval)
SetTimer(task) ==
    [task EXCEPT !.pc = "wait", !.timerLeft = task.pollInterval, !.data = NoData,
                 !.first = FALSE, !.cancelled = FALSE]

\* _activePolls[key] = setTimeout(attempt, pollInterval): the handle stored
\* before, if any, is overwritten without clearTimeout
Reschedule(ts, t) ==
    /\ tasks' = [ts EXCEPT ![t] = SetTimer(@)]
    /\ activePolls' = [activePolls EXCEPT ![PollKeyOf(ts[t])] = HandleOf(t)]

\* variant: a failed attempt is always retried
RetryAlways(ts, t) == Reschedule(ts, t)

\* the retry policy of the catch branches:
\*   if (poll && (Date.now() - startTime) < maxPollTime) _activePolls[..] = setTimeout(..)
RetryOrStop(ts, t) ==
    IF WithinBudget(ts[t])
    THEN Reschedule(ts, t)
    ELSE tasks' = Stop(ts, t) /\ UNCHANGED activePolls

Unsteady(ts, t) == [ts EXCEPT ![t].steady = 0]

---------------------------------------------------------------------------
(* loadModel and its resolution task *)

\* variant: loadModel without the cache check
ModelCacheMiss(c, ck) == FALSE

\* variant: the test of the loaded flag inverted
ModelCacheHitUnloaded(c, ck) == c[ck] # NoEntry /\ ~c[ck].loaded

\* _cache[cacheKey] && _cache[cacheKey].loaded
ModelCacheHit(c, ck) == c[ck] # NoEntry /\ c[ck].loaded

\* the closure _startModelLoad creates, after its first attempt() has called
\* fetchModel; the group holds the placeholder
NewModelTask(id, o) ==
    [IdleTask EXCEPT !.kind = "model", !.id = id, !.pc = "fetch",
                     !.poll = o.poll,
                     !.pollInterval = OrDefault(o.pollInterval, DefaultPollInterval),
                     !.maxPollTime = OrDefault(o.maxPollTime, DefaultMaxPollTime),
                     !.placeholderIn = TRUE, !.first = TRUE, !.steady = 1]

\* variant: THREE.js is taken for granted
threeAssumed == TRUE

\* typeof window.THREE !== 'undefined' && window.THREE !== null
threeAvailable == three

loadModel(id, o) ==
    LET ck == ModelCacheKey(id) IN
    IF ~threeAvailable
    THEN /\ ret' = [call |-> "loadModel", id |-> id, group |-> 0, cached |-> FALSE,
                    promise |-> [state |-> "resolved", value |-> NullResult]]
         /\ UNCHANGED <<cache, activePolls, tasks>>
    ELSE IF ModelCacheHit(cache, ck)
    THEN /\ ret' = [call |-> "loadModel", id |-> id, group |-> cache[ck].group, cached |-> TRUE,
                    promise |-> [state |-> "resolved", value |-> [group |-> cache[ck].group]]]
         /\ UNCHANGED <<cache, activePolls, tasks>>
    ELSE /\ FreeSlots # {}
         /\ LET t == NextSlot IN
            /\ tasks' = [tasks EXCEPT ![t] = NewModelTask(id, o)]
            /\ cache' = [cache EXCEPT ![ck] = [group |-> t, loaded |-> FALSE]]
            /\ ret' = [call |-> "loadModel", id |-> id, group |-> t, cached |-> FALSE,
                       promise |-> [state |-> "resolved", value |-> [group |-> t]]]
         /\ UNCHANGED activePolls

LoadModel ==
    /\ \E id \in ModelIds, o \in Options : loadModel(id, o)
    /\ fired' = <<>>
    /\ UNCHANGED <<gltfLoader, three, gs3d, mode>>

\* variant: a missing GLTFLoader is retried like a failed attempt
LoaderMissingRetries(t, progress) ==
    /\ RetryOrStop(tasks, t)
    /\ fired' = <<progress, Cb("onError", t, Err("GLTFLoader not available"))>>
    /\ UNCHANGED cache

\* if (!_gltfLoader) { ... onError(new Error('GLTFLoader not available')); return; }
LoaderMissing(t, progress) ==
    /\ tasks' = Stop(tasks, t)
    /\ fired' = <<progress, Cb("onError", t, Err("GLTFLoader not available"))>>
    /\ UNCHANGED <<cache, activePolls>>

\* fetchModel(modelId).then(function (modelData) { ... })
ModelFetched(t, modelData) ==
    LET meshUrl == resolveMeshUrl(modelData)
        progress == Cb("onProgress", t, modelData)
    IN
    IF Truthy(meshUrl)
    THEN IF ~gltfLoader
         THEN LoaderMissing(t, progress)
         ELSE /\ tasks' = [tasks EXCEPT ![t] = [@ EXCEPT !.pc = "load", !.data = modelData,
                                                         !.steady = 0]]
              /\ fired' = <<progress>>
              /\ UNCHANGED <<cache, activePolls>>
    ELSE IF WithinBudget(tasks[t])
    THEN Reschedule(tasks, t) /\ fired' = <<progress>> /\ UNCHANGED cache
    ELSE IF ~tasks[t].poll
    THEN /\ tasks' = Stop(tasks, t)
         /\ fired' = <<progress>>
         /\ UNCHANGED <<cache, activePolls>>
    ELSE /\ tasks' = Stop(tasks, t)
         /\ fired' = <<progress, Cb("onError", t, Err("Max poll time reached"))>>
         /\ UNCHANGED <<cache, activePolls>>

ModelFetchOk ==
    /\ \E t \in TaskIds, d \in ModelResponses :
          /\ tasks[t].kind = "model" /\ tasks[t].pc = "fetch"
          /\ ModelFetched(t, d)
    /\ ret' = NoCall
    /\ UNCHANGED <<gltfLoader, three, gs3d, mode>>

\* variant: the failed fetch is reported to onProgress as well
ModelFetchFailedReports(t) ==
    /\ RetryOrStop(Unsteady(tasks, t), t)
    /\ fired' = <<Cb("onProgress", t, NoData), Cb("onError", t, Err("fetch failed"))>>

\* fetchModel(modelId) ... .catch(function (err) { ... })
ModelFetchFailed(t) ==
    /\ RetryOrStop(Unsteady(tasks, t), t)
    /\ fired' = <<Cb("onError", t, Err("fetch failed"))>>

ModelFetchFail ==
    /\ \E t \in TaskIds :
          /\ tasks[t].kind = "model" /\ tasks[t].pc = "fetch"
          /\ ModelFetchFailed(t)
    /\ ret' = NoCall
    /\ UNCHANGED <<cache, gltfLoader, three, gs3d, mode>>

\* the group after the first statements of the loadGLB callback: the placeholder
\* is removed and disposed if it is still a child of the group, the scene is added
Swapped(task) ==
    [task EXCEPT !.placeholderIn = FALSE, !.scenes = @ + 1,
                 !.buuLoaded = TRUE, !.buuModelData = task.data]

\* loadGLB(meshUrl).then(function (scene) { ... }).  With no cache entry for
\* the key, `_cache[cacheKey].loaded = true` throws a TypeError after the group
\* was changed; the .catch of the same chain handles it like a failed load.
GLBLoaded(t) ==
    LET task == tasks[t]
        ck == CacheKeyOf(task)
        key == PollKeyOf(task)
        ts1 == [tasks EXCEPT ![t] = Swapped(task)]
    IN  IF cache[ck] = NoEntry
        THEN /\ RetryOrStop(ts1, t)
             /\ fired' = <<Cb("onError", t, Err("TypeError"))>>
             /\ UNCHANGED cache
        ELSE /\ cache' = [cache EXCEPT ![ck] = [@ EXCEPT !.loaded = TRUE]]
             /\ activePolls' = [activePolls EXCEPT ![key] = NoHandle]
             /\ tasks' = Stop([clearTimeout(ts1, activePolls[key]) EXCEPT
                                  ![t] = [@ EXCEPT !.swaps = @ + 1]], t)
             /\ fired' = <<Cb("onSwap", t, task.data)>>

ModelLoadOk ==
    /\ \E t \in TaskIds :
          /\ tasks[t].kind = "model" /\ tasks[t].pc = "load"
          /\ GLBLoaded(t)
    /\ ret' = NoCall
    /\ UNCHANGED <<gltfLoader, three, gs3d, mode>>

\* loadGLB(meshUrl) ... .catch(function (err) { ... })
GLBFailed(t) ==
    /\ RetryOrStop(tasks, t)
    /\ fired' = <<Cb("onError", t, Err("load failed"))>>

ModelLoadFail ==
    /\ \E t \in TaskIds :
          /\ tasks[t].kind = "model" /\ tasks[t].pc = "load"
          /\ GLBFailed(t)
    /\ ret' = NoCall
    /\ UNCHANGED <<cache, gltfLoader, three, gs3d, mode>>

---------------------------------------------------------------------------
(* loadWorld and its resolution task *)

\* variant: loadWorld without the cache check
WorldCacheMiss(c, ck) == FALSE

\* _cache[cacheKey] && _cache[cacheKey].ready
WorldCacheHit(c, ck) == c[ck] # NoEntry /\ c[ck].ready

\* the closure of the promise executor, after its first attempt() has called fetchWorld
NewWorldTask(id, o) ==
    [IdleTask EXCEPT !.kind = "world", !.id = id, !.pc = "fetch",
                     !.poll = o.poll,
                     !.pollInterval = OrDefault(o.pollInterval, DefaultPollInterval),
                     !.maxPollTime = OrDefault(o.maxPollTime, DefaultMaxPollTime),
                     !.first = TRUE, !.steady = 1]

loadWorld(id, o) ==
    LET ck == WorldKey(id) IN
    IF WorldCacheHit(cache, ck)
    THEN /\ ret' = [call |-> "loadWorld", id |-> id, task |-> 0,
                    promise |-> [state |-> "resolved", value |-> cache[ck].data]]
         /\ UNCHANGED <<cache, activePolls, tasks>>
    ELSE /\ FreeSlots # {}
         /\ LET t == NextSlot IN
            /\ tasks' = [tasks EXCEPT ![t] = NewWorldTask(id, o)]
            /\ ret' = [call |-> "loadWorld", id |-> id, task |-> t, promise |-> PendingPromise]
         /\ UNCHANGED <<cache, activePolls>>

LoadWorld ==
    /\ \E id \in WorldIds, o \in Options : loadWorld(id, o)
    /\ fired' = <<>>
    /\ UNCHANGED <<gltfLoader, three, gs3d, mode>>

\* variant: the promise is resolved only with a ready result
ResolveWhenReady(task, result) ==
    IF ~task.resolved /\ isReady(result)
    THEN [task EXCEPT !.resolved = TRUE, !.promise = [state |-> "resolved", value |-> result]]
    ELSE task

\* if (!resolved) { resolved = true; resolve(result); }
Resolve(task, result) ==
    IF ~task.resolved
    THEN [task EXCEPT !.resolved = TRUE, !.promise = [state |-> "resolved", value |-> result]]
    ELSE task

\* if (!resolved) { resolved = true; reject(err); }
Reject(task) ==
    IF ~task.resolved
    THEN [task EXCEPT !.resolved = TRUE, !.promise = [state |-> "rejected", value |-> NoResult]]
    ELSE task

\* fetchWorld(worldId).then(function (worldData) { ... })
WorldFetched(t, worldData) ==
    LET task == tasks[t]
        key == WorldKey(task.id)
        result == WorldResult(task.id, worldData)
        progress == Cb("onProgress", t, worldData)
        ts1 == [tasks EXCEPT ![t] = Resolve(task, result)]
    IN  IF isReady(result)
        THEN /\ cache' = [cache EXCEPT ![key] = [data |-> result, ready |-> TRUE]]
             /\ activePolls' = [activePolls EXCEPT ![key] = NoHandle]
             /\ tasks' = Stop([clearTimeout(ts1, activePolls[key]) EXCEPT
                                  ![t] = [@ EXCEPT !.readies = @ + 1]], t)
             /\ fired' = <<progress, Cb("onReady", t, result)>>
        ELSE IF WithinBudget(task)
        THEN Reschedule(ts1, t) /\ fired' = <<progress>> /\ UNCHANGED cache
        ELSE IF ~task.poll
        THEN /\ tasks' = Stop(ts1, t)
             /\ fired' = <<progress>>
             /\ UNCHANGED <<cache, activePolls>>
        ELSE /\ tasks' = Stop(ts1, t)
             /\ fired' = <<progress, Cb("onError", t, Err("Max poll time reached"))>>
             /\ UNCHANGED <<cache, activePolls>>

WorldFetchOk ==
    /\ \E t \in TaskIds, d \in WorldResponses :
          /\ tasks[t].kind = "world" /\ tasks[t].pc = "fetch"
          /\ WorldFetched(t, d)
    /\ ret' = NoCall
    /\ UNCHANGED <<gltfLoader, three, gs3d, mode>>

\* variant: a failed fetch rejects the promise only when polling is disabled
WorldFetchFailedQuiet(t) ==
    /\ IF WithinBudget(tasks[t])
       THEN Reschedule(Unsteady(tasks, t), t)
       ELSE /\ tasks' = Stop([tasks EXCEPT ![t] = IF @.poll THEN @ ELSE Reject(@)], t)
            /\ UNCHANGED activePolls
    /\ fired' = <<Cb("onError", t, Err("fetch failed"))>>

\* fetchWorld(worldId) ... .catch(function (err) { ... })
WorldFetchFailed(t) ==
    /\ IF WithinBudget(tasks[t])
       THEN Reschedule(Unsteady(tasks, t), t)
       ELSE /\ tasks' = Stop([tasks EXCEPT ![t] = Reject(@)], t)
            /\ UNCHANGED activePolls
    /\ fired' = <<Cb("onError", t, Err("fetch failed"))>>

WorldFetchFail ==
    /\ \E t \in TaskIds :
          /\ tasks[t].kind = "world" /\ tasks[t].pc = "fetch"
          /\ WorldFetchFailed(t)
    /\ ret' = NoCall
    /\ UNCHANGED <<cache, gltfLoader, three, gs3d, mode>>

---------------------------------------------------------------------------
(* loadSplat *)

SplatUrls == {"s.spz"}

\* the DropInViewer a loadSplat call constructed
Viewer(t) == [viewer |-> t]

\* the call after viewer.addSplatScene(url, sceneConfig) was started
NewSplatTask(url) ==
    [IdleTask EXCEPT !.kind = "splat", !.id = url, !.pc = "load"]

\* loadSplat(url, options).  ctorThrows: new GS3D.DropInViewer(viewerConfig) throws.
loadSplat(url, ctorThrows) ==
    IF ~gs3d
    THEN /\ ret' = [call |-> "loadSplat", id |-> url, task |-> 0,
                    promise |-> [state |-> "resolved", value |-> NullResult]]
         /\ fired' = <<>>
         /\ UNCHANGED tasks
    ELSE IF ctorThrows
    THEN /\ ret' = [call |-> "loadSplat", id |-> url, task |-> 0,
                    promise |-> [state |-> "resolved", value |-> NullResult]]
         /\ fired' = <<Cb("onError", 0, Err("DropInViewer failed"))>>
         /\ UNCHANGED tasks
    ELSE /\ FreeSlots # {}
         /\ LET t == NextSlot IN
            /\ tasks' = [tasks EXCEPT ![t] = NewSplatTask(url)]
            /\ ret' = [call |-> "loadSplat", id |-> url, task |-> t, promise |-> PendingPromise]
         /\ fired' = <<>>

LoadSplat ==
    /\ \E url \in SplatUrls, ctorThrows \in BOOLEAN : loadSplat(url, ctorThrows)
    /\ UNCHANGED <<cache, activePolls, gltfLoader, three, gs3d, mode>>

\* viewer.addSplatScene(...).then(function () { onLoad(viewer); return viewer; })
SplatLoaded(t) ==
    /\ tasks' = Stop([tasks EXCEPT ![t].promise = [state |-> "resolved", value |-> Viewer(t)]], t)
    /\ fired' = <<Cb("onLoad", t, Viewer(t))>>

SplatLoadOk ==
    /\ \E t \in TaskIds :
          /\ tasks[t].kind = "splat" /\ tasks[t].pc = "load"
          /\ SplatLoaded(t)
    /\ ret' = NoCall
    /\ UNCHANGED <<cache, activePolls, gltfLoader, three, gs3d, mode>>

\* variant: the failure of the scene load is passed on to the caller
SplatFailedRejects(t) ==
    /\ tasks' = Stop([tasks EXCEPT ![t].promise = [state |-> "rejected", value |-> NoResult]], t)
    /\ fired' = <<Cb("onError", t, Err("load failed"))>>

\* variant: the failure of the scene load is not reported
SplatFailedSilent(t) ==
    /\ tasks' = Stop([tasks EXCEPT ![t].promise = [state |-> "resolved", value |-> NullResult]], t)
    /\ fired' = <<>>

\* viewer.addSplatScene(...) ... .catch(function (err) { onError(err); return null; })
SplatFailed(t) ==
    /\ tasks' = Stop([tasks EXCEPT ![t].promise = [state |-> "resolved", value |-> NullResult]], t)
    /\ fired' = <<Cb("onError", t, Err("load failed"))>>

SplatLoadFail ==
    /\ \E t \in TaskIds :
          /\ tasks[t].kind = "splat" /\ tasks[t].pc = "load"
          /\ SplatFailed(t)
    /\ ret' = NoCall
    /\ UNCHANGED <<cache, activePolls, gltfLoader, three, gs3d, mode>>

----------------------------------------------------------------------------
(* loadWorldSplat: loadWorld(...).then(pick a url, loadSplat).catch(...) *)

\* opts.splatResolution || 'auto'
Resolutions == {"high", "medium", "low", "auto"}

\* { world: ..., viewer: ... }
WorldSplatResult(world, viewer) == [world |-> world, viewer |-> viewer]

\* The state of one loadWorldSplat call, kept with the closure whose promise
\* it waits for.
\*   pc        "none": no call, "world": waits for loadWorld, "splat": waits
\*             for loadSplat, "moved": goes on with the loadSplat call,
\*             "done": settled
\*   splatUrl  the url loadSplat was called with, NULL while it was not called
\*   promise   the promise loadWorldSplat returned
Wrap(pc, res, world, url, promise) ==
    [pc |-> pc, resolution |-> res, world |-> world, splatUrl |-> url, promise |-> promise]

\* variant: the requested tier is ignored, the best url is taken
PickBestSplatUrl(world, res) == world.splatUrl

\* the url the then-callback picks for a resolution preference
PickSplatUrl(world, res) ==
    IF res = "high" /\ Truthy(world.splats.highRes) THEN world.splats.highRes
    ELSE IF res = "medium" /\ Truthy(world.splats.mediumRes) THEN world.splats.mediumRes
    ELSE IF res = "low" /\ Truthy(world.splats.lowRes) THEN world.splats.lowRes
    ELSE world.splatUrl

\* The then-callback of loadWorldSplat for a world result, run on behalf of
\* the call kept with closure t (t = 0: loadWorld answered from the cache and
\* the call has no closure yet).  A loadSplat call that returns null at once
\* settles the call in the same turn of the event loop.
WorldSplatThen(t, world, res, ctorThrows) ==
    LET url == PickSplatUrl(world, res)
        result == WorldSplatResult(world, NullResult)
        onLoad == Cb("loadWorldSplat.onLoad", t, result)
        settle(called, f) ==
            /\ tasks' = IF t = 0 THEN tasks
                        ELSE [tasks EXCEPT ![t].wrap =
                                 Wrap("done", res, world, called, [state |-> "resolved", value |-> result])]
            /\ ret' = IF t = 0
                      THEN [call |-> "loadWorldSplat", task |-> 0, resolution |-> res,
                            world |-> world, splatUrl |-> called,
                            promise |-> [state |-> "resolved", value |-> result]]
                      ELSE NoCall
            /\ fired' = f
    IN  IF ~Truthy(url) THEN settle(NULL, <<onLoad>>)
        ELSE IF ~gs3d THEN settle(url, <<onLoad>>)
        ELSE IF ctorThrows
        THEN settle(url, <<Cb("onError", 0, Err("DropInViewer failed")), onLoad>>)
        ELSE /\ FreeSlots # {}
             /\ LET u == NextSlot
                    started == [tasks EXCEPT ![u] =
                                   [NewSplatTask(url) EXCEPT
                                       !.wrap = Wrap("splat", res, world, url, PendingPromise)]]
                IN  /\ tasks' = IF t = 0 THEN started
                                ELSE [started EXCEPT ![t].wrap = Wrap("moved", res, world, url, PendingPromise)]
                    /\ ret' = IF t = 0
                              THEN [call |-> "loadWorldSplat", task |-> u, resolution |-> res,
                                    world |-> world, splatUrl |-> url, promise |-> PendingPromise]
                              ELSE NoCall
             /\ fired' = <<>>

\* loadWorldSplat(worldId, options): the call of loadWorld and, when it is
\* answered from the cache, the then-callback
loadWorldSplat(id, res, o, ctorThrows) ==
    LET ck == WorldKey(id) IN
    IF WorldCacheHit(cache, ck)
    THEN WorldSplatThen(0, cache[ck].data, res, ctorThrows)
    ELSE /\ FreeSlots # {}
         /\ LET t == NextSlot IN
            /\ tasks' = [tasks EXCEPT ![t] =
                            [NewWorldTask(id, o) EXCEPT
                                !.wrap = Wrap("world", res, NoResult, NULL, PendingPromise)]]
            /\ ret' = [call |-> "loadWorldSplat", task |-> t, resolution |-> res,
                       world |-> NoResult, splatUrl |-> NULL, promise |-> PendingPromise]
         /\ fired' = <<>>

LoadWorldSplat ==
    /\ \E id \in WorldIds, res \in Resolutions, o \in Options, ctorThrows \in BOOLEAN :
          loadWorldSplat(id, res, o, ctorThrows)
    /\ UNCHANGED <<cache, activePolls, gltfLoader, three, gs3d, mode>>

\* .catch(function (err) { onError(err); return { world: null, viewer: null }; })
WorldSplatCatch(t) ==
    /\ tasks' = [tasks EXCEPT ![t].wrap =
                    [@ EXCEPT !.pc = "done",
                              !.promise = [state |-> "resolved",
                                           value |-> WorldSplatResult(NullResult, NullResult)]]]
    /\ fired' = <<Cb("loadWorldSplat.onError", t, Err("fetch failed"))>>
    /\ ret' = NoCall

\* the promise of loadWorld has settled: the then-callback or the
\* catch-callback of the loadWorldSplat call runs
WorldSplatAfterWorld ==
    /\ \E t \in TaskIds :
          /\ tasks[t].wrap.pc = "world"
          /\ \/ /\ tasks[t].promise.state = "resolved"
                /\ \E ctorThrows \in BOOLEAN :
                      WorldSplatThen(t, tasks[t].promise.value, tasks[t].wrap.resolution, ctorThrows)
             \/ /\ tasks[t].promise.state = "rejected"
                /\ WorldSplatCatch(t)
    /\ UNCHANGED <<cache, activePolls, gltfLoader, three, gs3d, mode>>

\* loadSplat(...).then(function (viewer) { ... onLoad(result); return result; })
WorldSplatAfterSplat ==
    /\ \E u \in TaskIds :
          /\ tasks[u].wrap.pc = "splat"
          /\ tasks[u].promise.state = "resolved"
          /\ LET result == WorldSplatResult(tasks[u].wrap.world, tasks[u].promise.value) IN
             /\ tasks' = [tasks EXCEPT ![u].wrap =
                             [@ EXCEPT !.pc = "done",
                                       !.promise = [state |-> "resolved", value |-> result]]]
             /\ fired' = <<Cb("loadWorldSplat.onLoad", u, result)>>
    /\ ret' = NoCall
    /\ UNCHANGED <<cache, activePolls, gltfLoader, three, gs3d, mode>>

---------------------------------------------------------------------------
(* Timers and the clock *)

\* the timer callback: attempt() calls fetchModel / fetchWorld again
attempt(task) ==
    [task EXCEPT !.pc = "fetch", !.steady = IF @ > 0 THEN @ + 1 ELSE 0, !.cancelled = FALSE]

\* the handle of a fired timer stays in _activePolls, inert
Expired(polls, t) ==
    [k \in PollKeys |-> IF polls[k] = HandleOf(t) THEN FiredHandle ELSE polls[k]]

TimerFire ==
    /\ \E t \in TaskIds :
          /\ tasks[t].pc = "wait" /\ tasks[t].timerLeft = 0
          /\ tasks' = [tasks EXCEPT ![t] = attempt(@)]
          /\ activePolls' = Expired(activePolls, t)
    /\ ret' = NoCall
    /\ fired' = <<>>
    /\ UNCHANGED <<cache, gltfLoader, three, gs3d, mode>>

\* one unit of time passes for every closure that still waits for something
Ticked(task) ==
    IF Live(task)
    THEN [task EXCEPT !.elapsed = IF task.poll THEN Min(@ + 1, task.maxPollTime) ELSE @,
                      !.timerLeft = IF task.pc = "wait" THEN @ - 1 ELSE @,
                      !.steady = IF task.pc = "wait" THEN @ ELSE 0]
    ELSE task

\* a due timer fires before more time passes
Tick ==
    /\ \E t \in TaskIds : Live(tasks[t])
    /\ \A t \in TaskIds : tasks[t].pc = "wait" => tasks[t].timerLeft > 0
    /\ tasks' = [t \in TaskIds |-> Ticked(tasks[t])]
    /\ ret' = NoCall
    /\ fired' = <<>>
    /\ UNCHANGED <<cache, activePolls, gltfLoader, three, gs3d, mode>>

---------------------------------------------------------------------------
(* Polling control and cache utilities *)

\* the attempts in flight for `keys` when a cancel or a clear is called
MarkInFlight(ts, keys) ==
    [t \in TaskIds |->
        IF ts[t].pc \in {"fetch", "load"} /\ PollKeyOf(ts[t]) \in keys
        THEN [ts[t] EXCEPT !.cancelled = TRUE]
        ELSE ts[t]]

\* variant: every registered timer is cleared, whatever the key
cancelPollClearsAll(key) ==
    /\ tasks' = MarkInFlight(clearTimeout(tasks, activePolls[key]), {key})
    /\ activePolls' = [k \in PollKeys |-> NoHandle]

\* cancelPoll(modelId)
cancelPoll(key) ==
    /\ tasks' = MarkInFlight(clearTimeout(tasks, activePolls[key]), {key})
    /\ activePolls' = [activePolls EXCEPT ![key] = NoHandle]

CancelPoll ==
    /\ \E key \in PollKeys :
          /\ cancelPoll(key)
          /\ ret' = NoCall
    /\ fired' = <<>>
    /\ UNCHANGED <<cache, gltfLoader, three, gs3d, mode>>

RECURSIVE ClearAll(_, _, _)
\* for (var id in _activePolls) clearTimeout(_activePolls[id])
ClearAll(ts, polls, keys) ==
    IF keys = {}
    THEN ts
    ELSE LET k == CHOOSE k \in keys : TRUE
         IN  ClearAll(clearTimeout(ts, polls[k]), polls, keys \ {k})

\* cancelAllPolls()
cancelAllPolls ==
    /\ tasks' = MarkInFlight(ClearAll(tasks, activePolls, PollKeys), PollKeys)
    /\ activePolls' = [k \in PollKeys |-> NoHandle]

CancelAllPolls ==
    /\ cancelAllPolls
    /\ ret' = NoCall
    /\ fired' = <<>>
    /\ UNCHANGED <<cache, gltfLoader, three, gs3d, mode>>

\* clearCache(): cancelAllPolls(); _cache = {}
clearCache ==
    /\ cancelAllPolls
    /\ cache' = [k \in CacheKeys |-> NoEntry]

ClearCache ==
    /\ clearCache
    /\ ret' = NoCall
    /\ fired' = <<>>
    /\ UNCHANGED <<gltfLoader, three, gs3d, mode>>

\* setGLTFLoader(LoaderClass), or the host page providing THREE.GLTFLoader
SetGLTFLoader ==
    /\ ~gltfLoader
    /\ gltfLoader' = TRUE
    /\ ret' = NoCall
    /\ fired' = <<>>
    /\ UNCHANGED <<cache, activePolls, tasks, three, gs3d, mode>>

---------------------------------------------------------------------------
(* Cache queries *)

\* getCachedWorld(worldId): entry.data || null
getCachedWorld(id) ==
    LET entry == cache[WorldKey(id)] IN
    IF entry = NoEntry THEN NullResult
    ELSE IF entry.data = NoResult THEN NullResult
    ELSE entry.data

----------------------------------------------------------------------------
(* The URL resolvers as operations of the public API *)

UrlNames == <<"a.glb", "b.glb", "c.glb", "d.glb", "e.glb">>
MeshUrls == {UrlNames[i] : i \in 1..Min(MaxUrls, Len(UrlNames))}

\* a sub-record is missing, present without url, or present with a url
MeshRecords == {Absent, Media("")} \cup {Media(u) : u \in MeshUrls}

\* every descriptor: any subset of the three sub-records, with or without url
MeshDescriptors ==
    {ModelData(t, o, m) : t \in MeshRecords, o \in MeshRecords, m \in MeshRecords}

\* BUU.resolveMeshUrl(modelData), called on the descriptor at hand
ResolveMeshUrl ==
    /\ ret.call = "descriptor"
    /\ ret' = [call |-> "resolveMeshUrl", arg |-> ret.arg,
               result |-> resolveMeshUrl(ret.arg)]
    /\ UNCHANGED <<cache, activePolls, tasks, gltfLoader, three, gs3d, mode, fired>>

SplatUrlNames == <<"x", "y", "z", "v", "w">>
TierUrls == {SplatUrlNames[i] : i \in 1..Min(MaxUrls, Len(SplatUrlNames))}

\* a tier is missing, present without url, or present with a url
TierRecords == {Absent, Media("")} \cup {Media(u) : u \in TierUrls}

\* every world descriptor as far as the splat resolvers read it: splatFiles
\* missing, or present with any subset of its three tiers
SplatDescriptors ==
    {WorldData(sf, Absent, Absent, Absent, NoImages, "", "", "COMPLETED") :
        sf \in {NoSplatFiles} \cup
               {SplatFiles(l, m, h) : l \in TierRecords, m \in TierRecords, h \in TierRecords}}

\* BUU.resolveAllSplatUrls(worldData), called on the descriptor at hand
ResolveAllSplatUrls ==
    /\ ret.call = "worldDescriptor"
    /\ ret' = [call |-> "resolveAllSplatUrls", arg |-> ret.arg,
               splats |-> resolveAllSplatUrls(ret.arg)]
    /\ UNCHANGED <<cache, activePolls, tasks, gltfLoader, three, gs3d, mode, fired>>

\* BUU.resolveSplatUrl(worldData), called on the same descriptor afterwards
ResolveSplatUrl ==
    /\ ret.call = "resolveAllSplatUrls"
    /\ ret' = [call |-> "resolveSplatUrl", arg |-> ret.arg, splats |-> ret.splats,
               result |-> resolveSplatUrl(ret.arg)]
    /\ UNCHANGED <<cache, activePolls, tasks, gltfLoader, three, gs3d, mode, fired>>

\* The viewers disposeSplat may be handed: null, or an object with or without
\* a parent (whose remove() may throw) and with or without a dispose()
\* function (which may throw).
NullViewer == [null |-> TRUE]
Viewers ==
    {NullViewer} \cup [parent : {"none", "scene", "faulty"}, dispose : {"missing", "ok", "throws"}]

\* disposeSplat(viewer): the calls it makes, in order, and whether it throws
disposeSplat(viewer) ==
    IF viewer = NullViewer
    THEN [steps |-> <<>>, threw |-> FALSE]
    ELSE IF viewer.parent = "faulty"
    THEN [steps |-> <<"parent.remove">>, threw |-> TRUE]
    ELSE [steps |-> (IF viewer.parent = "scene" THEN <<"parent.remove">> ELSE <<>>)
                    \o (IF viewer.dispose # "missing" THEN <<"dispose">> ELSE <<>>),
          threw |-> FALSE]

\* BUU.disposeSplat(viewer), called on the viewer at hand
DisposeSplat ==
    /\ ret.call = "viewer"
    /\ ret' = [call |-> "disposeSplat", arg |-> ret.arg, outcome |-> disposeSplat(ret.arg)]
    /\ UNCHANGED <<cache, activePolls, tasks, gltfLoader, three, gs3d, mode, fired>>

\* an alternate-format sub-descriptor: missing, or a descriptor of its own
NoFormat == [present |-> FALSE, texturedMesh |-> Absent, optimizedMesh |-> Absent,
             mesh |-> Absent]
Format(t, o, m) == [present |-> TRUE, texturedMesh |-> t, optimizedMesh |-> o, mesh |-> m]

\* a descriptor with its nested obj and fbx sub-descriptors
FormatData(t, o, m, obj, fbx) ==
    [texturedMesh |-> t, optimizedMesh |-> o, mesh |-> m, obj |-> obj, fbx |-> fbx]

\* the sub-descriptors of one format, whose urls end in ext: present with no
\* sub-record, with a ranked pair, with an url-less record before a good one
FormatsOf(ext) ==
    {NoFormat,
     Format(Absent, Absent, Absent),
     Format(Media("a." \o ext), Absent, Media("b." \o ext)),
     Format(Media(""), Absent, Media("b." \o ext)),
     Format(Absent, Media("c." \o ext), Absent)}

FormatDescriptors ==
    {FormatData(g.texturedMesh, g.optimizedMesh, g.mesh, obj, fbx) :
        g \in FormatsOf("glb") \ {NoFormat}, obj \in FormatsOf("obj"), fbx \in FormatsOf("fbx")}

\* variant: the obj and fbx slots exchanged
resolveAllFormatsSwapped(modelData) ==
    [glb |-> resolveMeshUrl(modelData),
     obj |-> IF modelData.fbx.present THEN resolveMeshUrl(modelData.fbx) ELSE NULL,
     fbx |-> IF modelData.obj.present THEN resolveMeshUrl(modelData.obj) ELSE NULL]

resolveAllFormats(modelData) ==
    [glb |-> resolveMeshUrl(modelData),
     obj |-> IF modelData.obj.present THEN resolveMeshUrl(modelData.obj) ELSE NULL,
     fbx |-> IF modelData.fbx.present THEN resolveMeshUrl(modelData.fbx) ELSE NULL]

\* BUU.resolveAllFormats(modelData), called on the descriptor at hand
ResolveAllFormats ==
    /\ ret.call = "formatDescriptor"
    /\ ret' = [call |-> "resolveAllFormats", arg |-> ret.arg,
               result |-> resolveAllFormats(ret.arg)]
    /\ UNCHANGED <<cache, activePolls, tasks, gltfLoader, three, gs3d, mode, fired>>

\* loadSplat's viewerDefaults; the two enum-valued defaults exist only when
\* the GaussianSplats3D module has the enums
viewerDefaults(enums) ==
    [k \in {"gpuAcceleratedSort", "sharedMemoryForWorkers", "sphericalHarmonicsDegree"}
              \cup enums |->
        CASE k = "gpuAcceleratedSort" -> "true"
          [] k = "sharedMemoryForWorkers" -> "true"
          [] k = "sphericalHarmonicsDegree" -> "0"
          [] k = "logLevel" -> "LogLevel.None"
          [] k = "sceneRevealMode" -> "SceneRevealMode.Gradual"]

\* The options.viewer objects a caller may pass: any subset of two keys that
\* have a default, one that has a default when the module has the enum, and
\* one that never has; a value is null or something else.  A key whose value
\* is undefined counts as not supplied, as in the code's own test.
ViewerKeys == {"gpuAcceleratedSort", "sphericalHarmonicsDegree", "logLevel", "antialiased"}
CallerValues == {"null", "custom"}
ViewerOptions == UNION {[K -> CallerValues] : K \in SUBSET ViewerKeys}
EnumSets == {{}, {"logLevel"}, {"logLevel", "sceneRevealMode"}}

\* variant: a default is never overridden
MergedDefaultsDefaultWins(defaults, viewerOpts) == defaults

\* for (key in viewerDefaults) viewerConfig[key] =
\*     viewerOpts[key] !== undefined ? viewerOpts[key] : viewerDefaults[key]
MergedDefaults(defaults, viewerOpts) ==
    [k \in DOMAIN defaults |->
        IF k \in DOMAIN viewerOpts THEN viewerOpts[k] ELSE defaults[k]]

\* for (key in viewerOpts) if (... && viewerConfig[key] === undefined)
\*     viewerConfig[key] = viewerOpts[key]
viewerConfig(defaults, viewerOpts) ==
    LET merged == MergedDefaults(defaults, viewerOpts) IN
    [k \in DOMAIN merged \cup DOMAIN viewerOpts |->
        IF k \in DOMAIN merged THEN merged[k] ELSE viewerOpts[k]]

\* the configuration loadSplat builds for the options at hand
BuildViewerConfig ==
    /\ ret.call = "viewerOptions"
    /\ ret' = [call |-> "viewerConfig", arg |-> ret.arg, enums |-> ret.enums,
               result |-> viewerConfig(viewerDefaults(ret.enums), ret.arg)]
    /\ UNCHANGED <<cache, activePolls, tasks, gltfLoader, three, gs3d, mode, fired>>

----------------------------------------------------------------------------
(* Specifications *)

InitEngine ==
    /\ cache = [k \in CacheKeys |-> NoEntry]
    /\ activePolls = [k \in PollKeys |-> NoHandle]
    /\ tasks = [t \in TaskIds |-> IdleTask]
    /\ gltfLoader \in BOOLEAN
    /\ three \in BOOLEAN
    /\ gs3d \in BOOLEAN
    /\ ret = NoCall
    /\ fired = <<>>

\* the steps of model tasks and of the control operations
NextModel ==
    \/ LoadModel
    \/ ModelFetchOk
    \/ ModelFetchFail
    \/ ModelLoadOk
    \/ ModelLoadFail
    \/ TimerFire
    \/ Tick
    \/ CancelPoll
    \/ CancelAllPolls
    \/ ClearCache
    \/ SetGLTFLoader

\* the steps of world tasks and of the control operations
NextWorld ==
    \/ LoadWorld
    \/ WorldFetchOk
    \/ WorldFetchFail
    \/ TimerFire
    \/ Tick
    \/ CancelPoll
    \/ CancelAllPolls
    \/ ClearCache

Next ==
    \/ LoadModel
    \/ ModelFetchOk
    \/ ModelFetchFail
    \/ ModelLoadOk
    \/ ModelLoadFail
    \/ LoadWorld
    \/ WorldFetchOk
    \/ WorldFetchFail
    \/ LoadSplat
    \/ SplatLoadOk
    \/ SplatLoadFail
    \/ TimerFire
    \/ Tick
    \/ CancelPoll
    \/ CancelAllPolls
    \/ ClearCache
    \/ SetGLTFLoader

Init == InitEngine /\ mode = "short"

InitTimed == InitEngine /\ mode = "timed"

\* loadModel and its closure do not read the GaussianSplats3D module
InitModel == Init /\ ~gs3d

\* window.THREE and a GLTFLoader are in place
InitFair == InitModel /\ three /\ gltfLoader

\* loadWorld and its closure read neither window.THREE nor the GLTFLoader nor
\* the GaussianSplats3D module
InitWorld == Init /\ three /\ ~gltfLoader /\ ~gs3d

\* loadWorldSplat, loadSplat and the world task behind them
InitSplat == Init /\ three /\ ~gltfLoader

NextSplat ==
    \/ LoadWorldSplat
    \/ WorldSplatAfterWorld
    \/ WorldSplatAfterSplat
    \/ SplatLoadOk
    \/ SplatLoadFail
    \/ WorldFetchOk
    \/ WorldFetchFail
    \/ TimerFire
    \/ Tick

\* a caller holding one model descriptor, world descriptor or viewer, the
\* engine untouched
InitResolve ==
    /\ cache = [k \in CacheKeys |-> NoEntry]
    /\ activePolls = [k \in PollKeys |-> NoHandle]
    /\ tasks = [t \in TaskIds |-> IdleTask]
    /\ gltfLoader = FALSE
    /\ three = FALSE
    /\ gs3d = FALSE
    /\ mode = "short"
    /\ \/ \E d \in MeshDescriptors : ret = [call |-> "descriptor", arg |-> d]
       \/ \E d \in SplatDescriptors : ret = [call |-> "worldDescriptor", arg |-> d]
       \/ \E v \in Viewers : ret = [call |-> "viewer", arg |-> v]
       \/ \E d \in FormatDescriptors : ret = [call |-> "formatDescriptor", arg |-> d]
       \/ \E o \in ViewerOptions, e \in EnumSets :
             ret = [call |-> "viewerOptions", arg |-> o, enums |-> e]
    /\ fired = <<>>

NextResolve ==
    \/ ResolveMeshUrl
    \/ ResolveAllSplatUrls
    \/ ResolveSplatUrl
    \/ DisposeSplat
    \/ BuildViewerConfig
    \/ ResolveAllFormats

\* the steps of model and world tasks and of the control operations
NextTasks ==
    \/ LoadModel
    \/ ModelFetchOk
    \/ ModelFetchFail
    \/ ModelLoadOk
    \/ ModelLoadFail
    \/ LoadWorld
    \/ WorldFetchOk
    \/ WorldFetchFail
    \/ TimerFire
    \/ Tick
    \/ CancelPoll
    \/ CancelAllPolls
    \/ ClearCache

\* the fetch or the load that closure t waits for completes, one way or the other
Completes(t) ==
    /\ tasks[t].pc \in {"fetch", "load"}
    /\ \/ ModelFetchOk
       \/ ModelFetchFail
       \/ ModelLoadOk
       \/ ModelLoadFail
       \/ WorldFetchOk
       \/ WorldFetchFail
    /\ tasks'[t].pc # tasks[t].pc

\* Time advances, a due timer runs its callback, and every fetch and every
\* load settles: what the event loop and the network give the library.
Fairness ==
    /\ WF_vars(Tick)
    /\ WF_vars(TimerFire)
    /\ \A t \in TaskIds : WF_vars(Completes(t))

\* overlapping calls of loadModel and loadWorld
Spec == Init /\ [][Next]_vars

\* overlapping calls of loadModel and loadWorld with a loader in place, under
\* fair scheduling
SpecFair == InitFair /\ [][NextTasks]_vars /\ Fairness

\* overlapping loadModel calls
SpecModel == InitModel /\ [][NextModel]_vars

\* overlapping loadWorld calls
SpecWorld == InitWorld /\ [][NextWorld]_vars

\* one call, ceiling 12000 ms, interval 5000 ms
SpecTimed == InitTimed /\ [][Next]_vars
SpecSplat == InitSplat /\ [][NextSplat]_vars
SpecResolve == InitResolve /\ [][NextResolve]_vars

---------------------------------------------------------------------------
(* Properties *)

\* the closures created for model id
ModelTasks(id) == {t \in TaskIds : tasks[t].kind = "model" /\ tasks[t].id = id}

\* C1: for a model id, a second loadModel before the first call's mesh has
\* loaded creates no second resolution task: never two descriptor fetches of
\* the id in flight at once, never two pending poll timers of the id.
C1_OneTaskPerKey ==
    \A id \in ModelIds :
        /\ Cardinality({t \in ModelTasks(id) : tasks[t].pc = "fetch"}) <= 1
        /\ Cardinality({t \in ModelTasks(id) : tasks[t].pc = "wait"}) <= 1

\* C2: once the cache entry of a model id has loaded = true, a loadModel call
\* for the id returns the cached group and changes neither the closures (no
\* fetch, no task), nor the registry (no timer), nor the cache.
C2_LoadedModelServedFromCache ==
    [][\A id \in ModelIds :
          LET ck == ModelCacheKey(id) IN
          (/\ cache[ck] # NoEntry
           /\ cache[ck].loaded
           /\ ret'.call = "loadModel"
           /\ ret'.id = id)
          => (/\ ret'.group = cache[ck].group
              /\ tasks' = tasks
              /\ activePolls' = activePolls
              /\ cache' = cache)]_vars

\* a loadModel call has just been answered from the cache
C2_Witness == ret.call = "loadModel" /\ ret.cached

\* C3: after cancelPoll(key) or cancelAllPolls the registry has no entry for
\* the key, and a closure whose attempt was in flight when the cancel was
\* called starts nothing further: its late result registers no timer.
C3_CancelledNeverReschedules ==
    [][/\ \A key \in PollKeys :
             (cancelPoll(key) \/ cancelAllPolls) => activePolls'[key] = NoHandle
       /\ \A t \in TaskIds :
             tasks[t].cancelled
             => (/\ tasks'[t].pc # "wait"
                 /\ activePolls'[PollKeyOf(tasks[t])] # HandleOf(t))]_vars

\* the run of C4: a model task polling with maxPollTime 12000 and the default
\* pollInterval 5000, every fetch so far answered at once without a mesh URL
SteadyModelPoll(task) ==
    /\ task.kind = "model"
    /\ task.poll
    /\ task.maxPollTime = 12
    /\ task.pollInterval = DefaultPollInterval
    /\ task.steady > 0

\* the callbacks f contain onError('Max poll time reached') of closure t
GaveUpIn(f, t) ==
    \E i \in DOMAIN f : f[i] = Cb("onError", t, Err("Max poll time reached"))

\* C4: a model task with polling enabled, maxPollTime 12000 and pollInterval
\* 5000 whose instantaneous fetches always return a descriptor without mesh
\* URL performs exactly 3 fetch attempts (t = 0, 5000, 10000), none at
\* t = 15000, and then invokes onError('Max poll time reached').
C4_ThreeAttempts ==
    [][\A t \in TaskIds :
          SteadyModelPoll(tasks[t])
          => (/\ tasks'[t].steady <= 3
              /\ GaveUpIn(fired', t) => tasks[t].steady = 3)]_vars

\* C5: after clearCache() no task started before the clear issues a further
\* fetch, registers a poll timer, mutates a container or writes a cache entry,
\* tasks with a fetch or a GLB load in flight at the clear included.  A live
\* model task whose key has no cache entry was started before a clear that no
\* load request has followed.
C5_ClearStopsTasks ==
    [][\A t \in TaskIds :
          (/\ tasks[t].kind = "model"
           /\ Live(tasks[t])
           /\ cache[CacheKeyOf(tasks[t])] = NoEntry)
          => (/\ tasks'[t].pc \in {tasks[t].pc, "done"}
              /\ tasks'[t].scenes = tasks[t].scenes
              /\ tasks'[t].placeholderIn = tasks[t].placeholderIn
              /\ activePolls'[PollKeyOf(tasks[t])] # HandleOf(t))]_vars

\* the ready / loaded flag of a cache entry
Flagged(entry) ==
    /\ entry # NoEntry
    /\ IF "loaded" \in DOMAIN entry THEN entry.loaded ELSE entry.ready

\* C6: for every cache key, the ready / loaded flag of its entry goes from
\* false to true at most once and never back: an entry whose flag is true keeps
\* it in every step, until clearCache() deletes the entry.  (A ready world
\* entry may be replaced by the ready result of an overlapping loadWorld call.)
C6_FlagNeverReverts ==
    [][\A k \in CacheKeys :
          Flagged(cache[k])
          => \/ /\ Flagged(cache'[k])
                /\ "loaded" \in DOMAIN cache[k] => cache'[k] = cache[k]
             \/ clearCache /\ cache'[k] = NoEntry]_vars

\* a flagged entry while another closure of the same key is still live
C6_Witness ==
    \E t \in TaskIds :
        /\ tasks[t].kind = "model"
        /\ Live(tasks[t])
        /\ Flagged(cache[CacheKeyOf(tasks[t])])

\* C7: when the GLB load of a model task succeeds (the scene is added to the
\* group), onSwap is invoked exactly once with the scene and the descriptor of
\* that attempt, and the task performs no further fetch or load.
C7_SwapOnceThenStop ==
    [][\A t \in TaskIds :
          /\ (tasks[t].pc = "load" /\ tasks'[t].scenes = tasks[t].scenes + 1)
             => (/\ fired' = <<Cb("onSwap", t, tasks[t].data)>>
                 /\ tasks'[t].swaps = 1
                 /\ tasks'[t].pc = "done")
          /\ tasks[t].pc = "done" => tasks'[t].pc = "done"]_vars

\* the callbacks f report descriptor d fetched by closure t
AnswerIn(f, t, d) == f # <<>> /\ f[1] = Cb("onProgress", t, d)

\* the promise is resolved with value v
ResolvedWith(v) == [state |-> "resolved", value |-> v]

\* C8: a loadWorld call whose first fetch returns a descriptor with a
\* high-resolution splat URL resolves its promise with that result, stores a
\* cache entry with ready = true, invokes onReady and leaves no timer
\* registered for the world key; the call never fetches again.
C8_ReadyOnFirstFetch ==
    [][\A t \in TaskIds :
          /\ \A d \in WorldResponses :
                (/\ tasks[t].kind = "world"
                 /\ tasks[t].first
                 /\ HasUrl(d.splatFiles.highRes)
                 /\ AnswerIn(fired', t, d))
                => LET key == WorldKey(tasks[t].id)
                       result == WorldResult(tasks[t].id, d)
                   IN  /\ tasks'[t].promise = ResolvedWith(result)
                       /\ result.splatUrl = d.splatFiles.highRes.url
                       /\ cache'[key] = [data |-> result, ready |-> TRUE]
                       /\ fired' = <<Cb("onProgress", t, d), Cb("onReady", t, result)>>
                       /\ tasks'[t].readies = 1
                       /\ activePolls'[key] = NoHandle
                       /\ tasks'[t].pc = "done"
          /\ (tasks[t].kind = "world" /\ tasks[t].pc = "done") => tasks'[t].pc = "done"]_vars

\* a call has just become ready on the answer to its first fetch
C8_Witness ==
    \E t \in TaskIds, d \in WorldResponses :
        /\ tasks[t].kind = "world"
        /\ HasUrl(d.splatFiles.highRes)
        /\ fired = <<Cb("onProgress", t, d), Cb("onReady", t, WorldResult(tasks[t].id, d))>>
        /\ tasks[t].promise = ResolvedWith(WorldResult(tasks[t].id, d))
        /\ tasks[t].first
        /\ tasks[t].pc = "done"

\* C9: the promise loadWorld returned is settled by the first attempt whatever
\* the readiness: the first fetched descriptor resolves it with the result built
\* from that descriptor, ready or not; if the result is not ready and polling is
\* enabled and within the ceiling, polling goes on; a settled promise never changes.
C9_ResolvedByFirstAttempt ==
    [][\A t \in TaskIds :
          /\ \A d \in WorldResponses :
                (/\ tasks[t].kind = "world"
                 /\ tasks[t].first
                 /\ AnswerIn(fired', t, d))
                => LET result == WorldResult(tasks[t].id, d) IN
                   /\ tasks'[t].promise = ResolvedWith(result)
                   /\ (~isReady(result) /\ WithinBudget(tasks[t]))
                         => (tasks'[t].pc = "wait" /\ activePolls'[WorldKey(tasks[t].id)] = HandleOf(t))
          /\ tasks[t].promise # PendingPromise => tasks'[t].promise = tasks[t].promise]_vars

\* a call polls on after its promise was resolved with a result that is not ready
C9_Witness ==
    \E t \in TaskIds :
        /\ tasks[t].kind = "world"
        /\ tasks[t].pc = "fetch"
        /\ ~tasks[t].first
        /\ tasks[t].promise.state = "resolved"
        /\ ~isReady(tasks[t].promise.value)

\* the promise of closure t is rejected in this step
Rejects(t) ==
    tasks[t].promise = PendingPromise /\ tasks'[t].promise.state = "rejected"

C11_PromisesNeverReject ==
    /\ ret.call # "none" => ret.promise.state # "rejected"
    /\ \A t \in TaskIds : tasks[t].promise.state # "rejected"

\* C11, as the code has it: the promises of loadModel and loadSplat never
\* reject, and no call returns a rejected promise; the promise of loadWorld
\* is rejected only by a failed fetch when no fetch of the call has succeeded
\* before and no retry is scheduled, and onError is invoked with that error
\* too; a failed scene load of loadSplat is delivered through onError and a
\* null result.
C11_OnlyLoadWorldRejects ==
    [][/\ ret'.call # "none" => ret'.promise.state # "rejected"
       /\ ret'.call = "loadModel" => ret'.promise.state = "resolved"
       /\ \A t \in TaskIds :
             /\ tasks'[t].promise.state = "rejected"
                   => (/\ tasks'[t].kind = "world"
                       /\ \/ tasks[t].promise.state = "rejected"
                          \/ /\ tasks[t].pc = "fetch"
                             /\ ~tasks[t].resolved
                             /\ ~WithinBudget(tasks[t])
                             /\ fired' = <<Cb("onError", t, Err("fetch failed"))>>)
             /\ (tasks[t].kind = "splat" /\ tasks[t].pc = "load" /\ tasks'[t].pc = "done")
                   => \/ /\ tasks'[t].promise = ResolvedWith(Viewer(t))
                         /\ fired' = <<Cb("onLoad", t, Viewer(t))>>
                      \/ /\ tasks'[t].promise = ResolvedWith(NullResult)
                         /\ fired' = <<Cb("onError", t, Err("load failed"))>>]_vars

\* a scene load of loadSplat has just failed
C11_Witness ==
    \E t \in TaskIds :
        /\ tasks[t].kind = "splat"
        /\ tasks[t].promise = ResolvedWith(NullResult)
        /\ fired = <<Cb("onError", t, Err("load failed"))>>

\* the first callback of f is onError(e) of closure t
FailureIn(f, t, e) == f # <<>> /\ f[1] = Cb("onError", t, Err(e))

\* C12: in a model task, when a descriptor fetch or a GLB load fails, onError
\* is invoked once with the error; with polling enabled and the elapsed time
\* below maxPollTime exactly one next attempt is scheduled pollInterval later
\* and its handle is stored in the registry; with the ceiling reached or
\* polling disabled nothing is scheduled.
C12_FailureRetriedWithinBudget ==
    [][\A t \in TaskIds :
          (/\ tasks[t].kind = "model"
           /\ \/ tasks[t].pc = "fetch" /\ FailureIn(fired', t, "fetch failed")
              \/ tasks[t].pc = "load" /\ FailureIn(fired', t, "load failed"))
          => /\ Len(fired') = 1
             /\ IF tasks[t].poll /\ tasks[t].elapsed < tasks[t].maxPollTime
                THEN /\ tasks'[t].pc = "wait"
                     /\ tasks'[t].timerLeft = tasks[t].pollInterval
                     /\ activePolls'[tasks[t].id] = HandleOf(t)
                ELSE /\ tasks'[t].pc = "done"
                     /\ activePolls' = activePolls
             /\ \A u \in TaskIds \ {t} : tasks'[u] = tasks[u]]_vars

\* a retry has just been scheduled after a failed GLB load
C12_Witness ==
    \E t \in TaskIds :
        /\ tasks[t].kind = "model"
        /\ fired = <<Cb("onError", t, Err("load failed"))>>
        /\ tasks[t].pc = "wait"
        /\ activePolls[tasks[t].id] = HandleOf(t)

\* C13: whenever a model or world task with polling enabled stops because the
\* ceiling has been reached without success, onError is invoked with the
\* "Max poll time reached" error, whether the last attempt found nothing
\* ready or its fetch failed.
C13_CeilingAlwaysReported ==
    [][\A t \in TaskIds :
          (/\ tasks[t].kind \in {"model", "world"}
           /\ tasks[t].pc = "fetch"
           /\ tasks[t].poll
           /\ tasks[t].elapsed >= tasks[t].maxPollTime
           /\ tasks'[t].pc = "done"
           /\ tasks'[t].readies = tasks[t].readies
           /\ fired' # <<>>
           /\ \A i \in 1..Len(fired') :
                 /\ fired'[i].task = t
                 /\ fired'[i] # Cb("onError", t, Err("GLTFLoader not available")))
          => GaveUpIn(fired', t)]_vars

\* C14: when a mesh URL has been resolved but no GLTFLoader is available,
\* the task invokes onError once, the placeholder stays in the group, the
\* cache entry stays unloaded, and the task stops without scheduling another
\* attempt, even with polling enabled and the ceiling not reached.
C14_NoLoaderStopsTask ==
    [][\A t \in TaskIds :
          (/\ tasks[t].kind = "model"
           /\ tasks[t].pc = "fetch"
           /\ ~gltfLoader
           /\ fired' # <<>>
           /\ fired'[1].task = t
           /\ fired'[1].cb = "onProgress"
           /\ Truthy(resolveMeshUrl(fired'[1].arg)))
          => /\ Len(fired') = 2
             /\ fired'[2].cb = "onError"
             /\ fired'[2].task = t
             /\ tasks'[t].placeholderIn
             /\ tasks'[t].scenes = 0
             /\ cache' = cache
             /\ ~Flagged(cache'[ModelCacheKey(tasks[t].id)])
             /\ tasks'[t].pc = "done"
             /\ tasks'[t].timerLeft = 0
             /\ activePolls' = activePolls]_vars

\* a task has just stopped for want of a GLTFLoader, with a mesh URL in hand
C14_Witness ==
    \E t \in TaskIds :
        /\ tasks[t].kind = "model"
        /\ tasks[t].pc = "done"
        /\ ~gltfLoader
        /\ Len(fired) = 2
        /\ fired[1].cb = "onProgress"
        /\ Truthy(resolveMeshUrl(fired[1].arg))
        /\ fired[2] = Cb("onError", t, Err("GLTFLoader not available"))
        /\ tasks[t].placeholderIn

\* C15: a model task started with poll = false makes exactly one fetch
\* attempt whatever the outcome; when that attempt finds no mesh URL the task
\* ends without scheduling a timer and without invoking onError.
C15_NoPollSingleAttempt ==
    [][\A t \in TaskIds :
          (tasks[t].kind = "model" /\ Live(tasks[t]) /\ ~tasks[t].poll)
          => /\ tasks[t].pc = "fetch" => tasks[t].first
             /\ tasks'[t].pc # "wait"
             /\ tasks'[t].timerLeft = 0
             /\ (/\ tasks[t].pc = "fetch"
                 /\ fired' # <<>>
                 /\ fired'[1].task = t
                 /\ fired'[1].cb = "onProgress"
                 /\ ~Truthy(resolveMeshUrl(fired'[1].arg)))
                => /\ fired' = <<Cb("onProgress", t, fired'[1].arg)>>
                   /\ tasks'[t].pc = "done"
                   /\ activePolls' = activePolls]_vars

\* the only attempt of a task has just ended with no mesh URL and no error
C15_Witness ==
    \E t \in TaskIds :
        /\ tasks[t].kind = "model"
        /\ tasks[t].pc = "done"
        /\ tasks[t].first
        /\ Len(fired) = 1
        /\ fired[1].task = t
        /\ fired[1].cb = "onProgress"
        /\ ~Truthy(resolveMeshUrl(fired[1].arg))

\* the number of onProgress invocations of closure t in f
ProgressCount(f, t) ==
    Cardinality({i \in DOMAIN f : f[i].cb = "onProgress" /\ f[i].task = t})

\* the step completes the attempt that model task t has in flight
AttemptEnds(t) ==
    /\ tasks[t].kind = "model"
    /\ tasks[t].pc = "fetch"
    /\ fired' # <<>>
    /\ fired'[1].task = t

\* C16: onProgress is invoked once on every attempt of a model task, whether
\* the descriptor fetch of the attempt succeeds or fails.
C16_ProgressOnEveryAttempt ==
    [][\A t \in TaskIds : AttemptEnds(t) => ProgressCount(fired', t) = 1]_vars

\* C16, as the code has it: onProgress is invoked once, first and with the
\* fetched descriptor, on every attempt whose fetch succeeds, whether or not
\* the descriptor has a mesh URL; an attempt whose fetch fails invokes
\* onError alone; no other step invokes onProgress.
C16_ProgressOnFetchedDescriptor ==
    [][\A t \in TaskIds :
          IF AttemptEnds(t)
          THEN \/ /\ fired'[1].cb = "onProgress"
                  /\ fired'[1].arg \in ModelResponses
                  /\ ProgressCount(fired', t) = 1
                  /\ \A i \in DOMAIN fired' :
                        fired'[i] # Cb("onError", t, Err("fetch failed"))
               \/ /\ fired' = <<Cb("onError", t, Err("fetch failed"))>>
          ELSE tasks[t].kind = "model" => ProgressCount(fired', t) = 0]_vars

\* an attempt has just ended with a failed fetch and a retry is pending
C16_Witness ==
    \E t \in TaskIds :
        /\ tasks[t].kind = "model"
        /\ tasks[t].pc = "wait"
        /\ fired = <<Cb("onError", t, Err("fetch failed"))>>

\* the containers of the cache entries keep their contents
GroupsUnchanged ==
    \A t \in TaskIds :
        /\ tasks'[t].placeholderIn = tasks[t].placeholderIn
        /\ tasks'[t].scenes = tasks[t].scenes
        /\ tasks'[t].buuLoaded = tasks[t].buuLoaded

\* C17: cancelPoll(key) and cancelAllPolls() leave the cache unchanged (same
\* keys, same flags, same containers with the same contents); cancelPoll
\* changes only the registry entry of its key, which it removes, and
\* cancelAllPolls leaves the registry empty.
C17_CancelLeavesCache ==
    [][/\ CancelPoll
          => /\ cache' = cache
             /\ GroupsUnchanged
             /\ \E key \in PollKeys :
                   /\ activePolls'[key] = NoHandle
                   /\ \A k \in PollKeys \ {key} : activePolls'[k] = activePolls[k]
       /\ CancelAllPolls
          => /\ cache' = cache
             /\ GroupsUnchanged
             /\ \A k \in PollKeys : activePolls'[k] = NoHandle]_vars

\* the poll of a model has been cancelled: its cache entry is still there and
\* the timer of a world is still registered
C17_Witness ==
    \E t, u \in TaskIds :
        /\ tasks[t].kind = "model"
        /\ tasks[t].pc = "done"
        /\ ~tasks[t].first
        /\ tasks[t].swaps = 0
        /\ activePolls[tasks[t].id] = NoHandle
        /\ cache[ModelCacheKey(tasks[t].id)] # NoEntry
        /\ tasks[u].kind = "world"
        /\ tasks[u].pc = "wait"
        /\ activePolls[WorldKey(tasks[u].id)] = HandleOf(u)

\* C18: when THREE.js is not available, loadModel resolves to null and has no
\* other effect: no cache entry is created, no descriptor fetch is issued
\* and no poll timer is registered.
C18_NoThreeNoEffect ==
    [][(~three /\ ret'.call = "loadModel")
          => /\ ret'.promise = ResolvedWith(NullResult)
             /\ cache' = cache
             /\ tasks' = tasks
             /\ activePolls' = activePolls
             /\ fired' = <<>>]_vars

\* loadModel has just returned null for want of THREE.js
C18_Witness ==
    /\ ~three
    /\ ret.call = "loadModel"
    /\ ret.promise = ResolvedWith(NullResult)
    /\ \A k \in CacheKeys : cache[k] = NoEntry
    /\ \A t \in TaskIds : tasks[t] = IdleTask

\* C19: once a world key has a ready cache entry, a loadWorld call for that
\* id resolves with the cached result object, issues no fetch and registers
\* no poll timer, and getCachedWorld returns that same result.
C19_ReadyWorldServedFromCache ==
    [][\A id \in WorldIds :
          (/\ Flagged(cache[WorldKey(id)])
           /\ ret'.call = "loadWorld"
           /\ ret'.id = id)
          => /\ ret'.promise = ResolvedWith(cache[WorldKey(id)].data)
             /\ isReady(ret'.promise.value)
             /\ ret'.promise.value = getCachedWorld(id)
             /\ ret'.promise.value = getCachedWorld(id)'
             /\ ret'.task = 0
             /\ tasks' = tasks
             /\ activePolls' = activePolls
             /\ cache' = cache]_vars

\* a loadWorld call has just been answered from the cache
C19_Witness ==
    /\ ret.call = "loadWorld"
    /\ ret.task = 0
    /\ ret.promise.state = "resolved"
    /\ ret.promise.value = getCachedWorld(ret.id)
    /\ isReady(ret.promise.value)

\* the sub-records of a descriptor that carry a url, by rank
\* (1 texturedMesh, 2 optimizedMesh, 3 mesh)
Ranked(d) == <<d.texturedMesh, d.optimizedMesh, d.mesh>>
WithUrl(d) == {i \in 1..3 : Ranked(d)[i].present /\ Ranked(d)[i].url # ""}

\* C20: for every model descriptor (any subset of texturedMesh,
\* optimizedMesh, mesh present, each with or without a url) resolveMeshUrl
\* returns the url of the highest-ranked sub-record that has one, in the
\* order texturedMesh > optimizedMesh > mesh, and null exactly when none has
\* a url; {optimizedMesh: {url: 'a.glb'}, mesh: {url: 'b.glb'}} gives 'a.glb'.
C20_HighestRankedUrl ==
    ret.call = "resolveMeshUrl"
    => LET d == ret.arg
           r == ret.result
       IN  /\ r = NULL <=> WithUrl(d) = {}
           /\ WithUrl(d) # {}
                 => \E i \in WithUrl(d) :
                       /\ \A j \in WithUrl(d) : i <= j
                       /\ r = Ranked(d)[i].url
           /\ d = ModelData(Absent, Media("a.glb"), Media("b.glb")) => r = "a.glb"

\* resolveMeshUrl has answered 'a.glb' for a descriptor without texturedMesh
\* whose optimizedMesh and mesh both carry a url
C20_Witness ==
    /\ ret.call = "resolveMeshUrl"
    /\ ret.arg = ModelData(Absent, Media("a.glb"), Media("b.glb"))
    /\ ret.result = "a.glb"

\* the url of one tier of a descriptor, null when splatFiles, the tier or
\* its url is missing
TierUrl(d, tier) ==
    IF d.splatFiles.present /\ d.splatFiles[tier].present /\ d.splatFiles[tier].url # ""
    THEN d.splatFiles[tier].url
    ELSE NULL

\* the first non-null slot in the order highRes, mediumRes, lowRes
FirstSlot(all) ==
    IF all.highRes # NULL THEN all.highRes
    ELSE IF all.mediumRes # NULL THEN all.mediumRes
    ELSE all.lowRes

\* C21: for every world descriptor resolveAllSplatUrls returns {lowRes,
\* mediumRes, highRes} with each slot the url of its tier or null,
\* independently of the others, and resolveSplatUrl equals the first non-null
\* slot of that result in the order highRes, mediumRes, lowRes (null when all
\* are null or splatFiles is absent); {splatFiles: {lowRes: {url: 'x'},
\* highRes: {url: 'z'}}} gives 'z' and {lowRes: 'x', mediumRes: null,
\* highRes: 'z'}.
C21_SplatUrlIsFirstSlot ==
    /\ ret.call \in {"resolveAllSplatUrls", "resolveSplatUrl"}
          => /\ DOMAIN ret.splats = {"lowRes", "mediumRes", "highRes"}
             /\ \A tier \in DOMAIN ret.splats : ret.splats[tier] = TierUrl(ret.arg, tier)
    /\ ret.call = "resolveSplatUrl"
          => /\ ret.result = FirstSlot(ret.splats)
             /\ ret.result = NULL
                   <=> \/ ~ret.arg.splatFiles.present
                       \/ \A tier \in DOMAIN ret.splats : ret.splats[tier] = NULL
             /\ ret.arg.splatFiles = SplatFiles(Media("x"), Absent, Media("z"))
                   => /\ ret.result = "z"
                      /\ ret.splats = [lowRes |-> "x", mediumRes |-> NULL, highRes |-> "z"]

\* both resolvers have answered for {lowRes: {url: 'x'}, highRes: {url: 'z'}}
C21_Witness ==
    /\ ret.call = "resolveSplatUrl"
    /\ ret.arg.splatFiles = SplatFiles(Media("x"), Absent, Media("z"))
    /\ ret.result = "z"
    /\ ret.splats.lowRes = "x"

\* the step resolves to null the promise of a loadSplat call: the call
\* returns null at once, or the scene load of call t ends with null
SplatNullAtCall == ret'.call = "loadSplat" /\ ret'.promise = ResolvedWith(NullResult)
SplatNullAtLoad(t) ==
    /\ tasks[t].kind = "splat"
    /\ tasks[t].pc = "load"
    /\ tasks'[t].promise = ResolvedWith(NullResult)

\* f holds exactly one callback, an onError
OneError(f) == Len(f) = 1 /\ f[1].cb = "onError"

C23_DisposeNeverThrows ==
    ret.call = "disposeSplat"
    => LET v == ret.arg
           o == ret.outcome
       IN  /\ ~o.threw
           /\ v = NullViewer => o.steps = <<>>
           /\ v # NullViewer
                 => /\ v.parent # "none" => o.steps # <<>> /\ o.steps[1] = "parent.remove"
                    /\ v.dispose # "missing"
                          => o.steps # <<>> /\ o.steps[Len(o.steps)] = "dispose"
                    /\ (v.parent = "none" /\ v.dispose = "missing") => o.steps = <<>>

\* the tier a resolution preference names
TierOf(res) ==
    CASE res = "high" -> "highRes"
      [] res = "medium" -> "mediumRes"
      [] res = "low" -> "lowRes"

\* the url of the requested tier when the descriptor of the world has it,
\* otherwise the best url of the descriptor (highRes > mediumRes > lowRes)
RequestedOrBest(world, res) ==
    LET d == world.raw IN
    IF res # "auto" /\ TierUrl(d, TierOf(res)) # NULL
    THEN TierUrl(d, TierOf(res))
    ELSE FirstSlot([lowRes |-> TierUrl(d, "lowRes"), mediumRes |-> TierUrl(d, "mediumRes"),
                    highRes |-> TierUrl(d, "highRes")])

\* a loadWorldSplat call that has got past loadWorld, as kept in wrap record
\* or return value x: it called loadSplat with the right url, or with none
RightSplat(x) ==
    /\ x.promise.state # "rejected"
    /\ x.world # NoResult
          => /\ x.splatUrl = RequestedOrBest(x.world, x.resolution)
             /\ x.splatUrl = NULL
                   => x.promise = ResolvedWith(WorldSplatResult(x.world, NullResult))

\* C24: loadWorldSplat never rejects: it loads the splat of the requested
\* tier ('high' / 'medium' / 'low') when the url of that tier is present,
\* otherwise the best available url (highRes > mediumRes > lowRes); it
\* resolves {world, viewer: null} without calling loadSplat when no splat url
\* exists, and resolves {world: null, viewer: null} after invoking onError
\* when loadWorld fails.
C24_WorldSplatNeverRejects ==
    [][/\ ret'.call = "loadWorldSplat" => RightSplat(ret')
       /\ \A t \in TaskIds :
             LET task == tasks'[t]
                 wrap == task.wrap
             IN  wrap.pc \in {"world", "splat", "done"}
                 => /\ RightSplat(wrap)
                    \* the call waits for the loadSplat call it made
                    /\ task.kind = "splat"
                          => /\ task.id = wrap.splatUrl
                             /\ wrap.pc = "done"
                                   => wrap.promise =
                                         ResolvedWith(WorldSplatResult(wrap.world, task.promise.value))
                    \* the call waited for loadWorld and made no loadSplat call
                    \* that is still in flight
                    /\ (task.kind = "world" /\ wrap.pc = "done")
                          => IF task.promise.state = "rejected"
                             THEN /\ wrap.promise =
                                        ResolvedWith(WorldSplatResult(NullResult, NullResult))
                                  /\ tasks[t].wrap.pc = "world"
                                        => fired' = <<Cb("loadWorldSplat.onError", t, Err("fetch failed"))>>
                             ELSE /\ wrap.world = task.promise.value
                                  /\ wrap.promise =
                                        ResolvedWith(WorldSplatResult(wrap.world, NullResult))]_vars

\* a call with splatResolution 'low' has loaded the lowRes splat of a world
\* that has a highRes splat too
C24_Witness ==
    \E u \in TaskIds :
        /\ tasks[u].kind = "splat"
        /\ tasks[u].wrap.pc = "done"
        /\ tasks[u].wrap.resolution = "low"
        /\ tasks[u].wrap.splatUrl = "x"
        /\ tasks[u].wrap.world.splatUrl = "z"
        /\ tasks[u].wrap.promise =
              ResolvedWith(WorldSplatResult(tasks[u].wrap.world, Viewer(u)))

\* C25: no attempt of a model or world task starts at a time t with
\* t - startTime >= maxPollTime: when the fire time of the next attempt
\* (completion of the current one plus pollInterval) would be at or past the
\* ceiling, the task gives up instead of firing that attempt.
C25_NoAttemptPastCeiling ==
    [][\A t \in TaskIds :
          /\ (/\ tasks[t].kind \in {"model", "world"}
              /\ tasks[t].pc = "wait"
              /\ tasks'[t].pc = "fetch")
             => tasks[t].elapsed < tasks[t].maxPollTime
          /\ (/\ tasks[t].kind \in {"model", "world"}
              /\ tasks[t].pc \in {"fetch", "load"}
              /\ tasks'[t].pc = "wait")
             => tasks[t].elapsed + tasks[t].pollInterval < tasks[t].maxPollTime]_vars

\* the closures that schedule their timers under registry key k
TasksOfKey(k) == {t \in TaskIds : tasks[t].kind \in {"model", "world"} /\ PollKeyOf(tasks[t]) = k}

\* the cache entry that belongs to registry key k
EntryOfKey(k) == IF k \in ModelIds THEN cache[ModelCacheKey(k)] ELSE cache[k]

\* the closures of key k whose timer is pending, registered or not
PendingOfKey(k) == {t \in TasksOfKey(k) : tasks[t].pc = "wait"}

\* C26: in every reachable state a key whose cache entry is ready / loaded has
\* no pending poll timer in the registry and no orphaned pending timer that
\* will still fire an attempt for it, also after overlapping load requests
\* for the same key.
C26_ReadyKeyHasNoTimer ==
    \A k \in PollKeys :
        Flagged(EntryOfKey(k))
        => /\ ~TimerPending(tasks, activePolls[k])
           /\ PendingOfKey(k) = {}

\* C27: in every reachable state a key that has no cache entry has no pending
\* poll timer; this covers model keys and world keys, world tasks that poll
\* while not yet ready, and keys whose entry clearCache removed.
C27_NoEntryNoTimer ==
    \A k \in PollKeys :
        EntryOfKey(k) = NoEntry
        => /\ ~TimerPending(tasks, activePolls[k])
           /\ PendingOfKey(k) = {}

\* C28: at any time there is at most one pending poll timer per key: a handle
\* stored in the registry is never overwritten while its timer is pending,
\* and every pending timer is the one registered for its key, within reach of
\* cancelPoll.
C28_OnePendingTimerPerKey ==
    [][\A k \in PollKeys :
          /\ (TimerPending(tasks, activePolls[k]) /\ activePolls'[k] # activePolls[k])
                => tasks'[activePolls[k].task].pc # "wait"
          /\ Cardinality(PendingOfKey(k)') <= 1
          /\ \A t \in PendingOfKey(k)' : activePolls'[k] = HandleOf(t)]_vars

\* C29: within one resolution task (one loadModel or loadWorld call) attempts
\* are strictly sequential: the next attempt is scheduled only from the
\* completion handler of the previous one, so the task never has two
\* attempts in flight and never a pending timer while an attempt of its is
\* in flight.
C29_AttemptsSequential ==
    [][\A t \in TaskIds :
          tasks'[t].kind \in {"model", "world"}
          => \* a timer is set only by the handler that completes the attempt in flight
             /\ (tasks'[t].pc = "wait" /\ tasks[t].pc # "wait")
                   => /\ tasks[t].pc \in {"fetch", "load"}
                      /\ fired' # <<>>
                      /\ fired'[1].task = t
                      /\ tasks'[t].timerLeft = tasks[t].pollInterval
             \* a fetch is issued only by the call and by the timer of the task
             /\ (tasks'[t].pc = "fetch" /\ tasks[t].pc # "fetch")
                   => \/ tasks[t].pc = "idle" /\ ret'.call \in {"loadModel", "loadWorld"}
                      \/ tasks[t].pc = "wait" /\ tasks[t].timerLeft = 0
             \* a GLB load is started only by the handler of the fetch before it
             /\ (tasks'[t].pc = "load" /\ tasks[t].pc # "load") => tasks[t].pc = "fetch"
             \* with an attempt in flight no timer of the task is pending or registered
             /\ tasks'[t].pc \in {"fetch", "load"}
                   => /\ tasks'[t].timerLeft = 0
                      /\ \A k \in PollKeys : activePolls'[k] # HandleOf(t)]_vars

\* a second attempt is in flight, started by the timer of the task
C29_Witness ==
    \E t \in TaskIds :
        /\ tasks[t].kind \in {"model", "world"}
        /\ tasks[t].pc = "fetch"
        /\ ~tasks[t].first
        /\ activePolls[PollKeyOf(tasks[t])] = FiredHandle

\* C30: on a successful GLB load the swap happens in one uninterrupted step
\* and in this order: the placeholder is detached and disposed if it is
\* still a child of the group, the final mesh is attached, the cache entry
\* is marked loaded = true, the registry entry of the key is cleared, and
\* only then onSwap is invoked: inside onSwap the cache reports loaded = true
\* and no timer is registered for the model.
C30_SwapThenFlagThenOnSwap ==
    [][\A t \in TaskIds :
          (/\ tasks[t].kind = "model"
           /\ tasks[t].pc = "load"
           /\ tasks'[t].scenes = tasks[t].scenes + 1)
          => /\ ~tasks'[t].placeholderIn
             /\ Flagged(cache'[ModelCacheKey(tasks[t].id)])
             /\ activePolls'[tasks[t].id] = NoHandle
             /\ \E i \in DOMAIN fired' : fired'[i].cb = "onSwap" /\ fired'[i].task = t]_vars

\* the callbacks f invoke onReady of closure t
ReadyIn(f, t) == \E i \in DOMAIN f : f[i].cb = "onReady" /\ f[i].task = t

\* C31: a world attempt is ready exactly when its resolved splat url or its
\* panorama url is non-null; onReady is invoked only for a ready attempt and
\* at most once per loadWorld call, the ready result is stored in the cache
\* with ready = true, and the task schedules no attempt after it.
C31_ReadyIffSplatOrPanorama ==
    [][\A t \in TaskIds :
          tasks[t].kind = "world"
          => /\ \A d \in WorldResponses :
                   (tasks[t].pc = "fetch" /\ AnswerIn(fired', t, d))
                   => LET result == WorldResult(tasks[t].id, d)
                          ready == resolveSplatUrl(d) # NULL \/ UrlOrNull(d.panoMedia) # NULL
                      IN  /\ ready <=> ReadyIn(fired', t)
                          /\ ready
                                => /\ fired' = <<Cb("onProgress", t, d), Cb("onReady", t, result)>>
                                   /\ cache'[WorldKey(tasks[t].id)] = [data |-> result, ready |-> TRUE]
                                   /\ tasks'[t].readies = 1
                                   /\ tasks'[t].pc = "done"
             /\ ~AnswerIn(fired', t, fired'[1].arg) => ~ReadyIn(fired', t)
             /\ tasks'[t].readies <= 1
             /\ tasks[t].readies = 1 => tasks'[t] = tasks[t]]_vars

\* a world with a panorama and no splat has just been found ready
C31_Witness ==
    \E t \in TaskIds :
        /\ tasks[t].kind = "world"
        /\ tasks[t].readies = 1
        /\ Len(fired) = 2
        /\ fired[2].cb = "onReady"
        /\ fired[2].task = t
        /\ fired[2].arg.splatUrl = NULL
        /\ fired[2].arg.panoramaUrl = "p.jpg"
        /\ cache[WorldKey(tasks[t].id)] = [data |-> fired[2].arg, ready |-> TRUE]

\* C32: the viewer configuration loadSplat builds contains every key of the
\* fixed defaults and every key of the caller's options.viewer, and for any
\* key present in both the caller's value is used.
C32_CallerOverridesDefaults ==
    ret.call = "viewerConfig"
    => LET defaults == viewerDefaults(ret.enums)
           opts == ret.arg
           config == ret.result
       IN  /\ DOMAIN config = DOMAIN defaults \cup DOMAIN opts
           /\ \A k \in DOMAIN opts : config[k] = opts[k]
           /\ \A k \in DOMAIN defaults \ DOMAIN opts : config[k] = defaults[k]

\* a configuration where the caller has overridden one default with null,
\* kept another and added a key of their own
C32_Witness ==
    /\ ret.call = "viewerConfig"
    /\ DOMAIN ret.arg = {"gpuAcceleratedSort", "antialiased"}
    /\ ret.arg["gpuAcceleratedSort"] = "null"
    /\ ret.result["gpuAcceleratedSort"] = "null"
    /\ ret.result["sphericalHarmonicsDegree"] = "0"
    /\ ret.result["antialiased"] = "custom"

\* the url a descriptor's three sub-records rank first, ranked by hand
BestOf(d) ==
    LET S == {d.texturedMesh, d.optimizedMesh, d.mesh}
        good == {r \in S : r.present /\ r.url # ""}
    IN  IF good = {} THEN NULL
        ELSE IF d.texturedMesh \in good THEN d.texturedMesh.url
        ELSE IF d.optimizedMesh \in good THEN d.optimizedMesh.url
        ELSE d.mesh.url

\* C33: resolveAllFormats returns an object with exactly the slots glb, obj
\* and fbx: glb is resolveMeshUrl of the top-level descriptor, obj and fbx are
\* resolveMeshUrl of the nested obj / fbx sub-descriptor, and a missing
\* sub-descriptor gives null.
C33_FormatsFixedShape ==
    ret.call = "resolveAllFormats"
    => LET d == ret.arg
           r == ret.result
       IN  /\ DOMAIN r = {"glb", "obj", "fbx"}
           /\ r.glb = BestOf(d)
           /\ r.obj = (IF d.obj.present THEN BestOf(d.obj) ELSE NULL)
           /\ r.fbx = (IF d.fbx.present THEN BestOf(d.fbx) ELSE NULL)
           /\ r.obj # NULL => r.obj \in {"a.obj", "b.obj", "c.obj"}
           /\ r.fbx # NULL => r.fbx \in {"a.fbx", "b.fbx", "c.fbx"}

\* a descriptor without obj and with an fbx whose first sub-record has no url
C33_Witness ==
    /\ ret.call = "resolveAllFormats"
    /\ ~ret.arg.obj.present
    /\ ret.arg.fbx = Format(Media(""), Absent, Media("b.fbx"))
    /\ ret.result = [glb |-> "a.glb", obj |-> NULL, fbx |-> "b.fbx"]

\* C34: every resolution task terminates: when time advances and every fetch
\* and load completes, a model or world task that has an attempt in flight or
\* a timer pending eventually has neither, and stays so.
C34_TasksTerminate ==
    \A t \in TaskIds : [](Live(tasks[t]) => <>[](~Live(tasks[t])))

\* a world task has just given up at its ceiling, after the model task beside
\* it attached its mesh, and neither has anything in flight or pending
C34_Witness ==
    \E t \in TaskIds, u \in TaskIds :
        /\ tasks[t].kind = "world" /\ tasks[u].kind = "model"
        /\ GaveUpIn(fired, t)
        /\ tasks[u].scenes = 1
        /\ ~Live(tasks[t]) /\ ~Live(tasks[u])

\* C35: whenever the cache entry of a model key has loaded = true, the group
\* stored in the entry contains the final mesh and no longer its placeholder,
\* also when several loadModel calls for the key overlapped.
C35_LoadedGroupHasMesh ==
    \A id \in ModelIds :
        LET entry == cache[ModelCacheKey(id)] IN
        (entry # NoEntry /\ entry.loaded)
        => /\ tasks[entry.group].scenes >= 1
           /\ ~tasks[entry.group].placeholderIn

\* C36: a group returned by loadModel never contains more than one final
\* mesh: whatever the attempts, cancels and clearCache calls, a task attaches
\* a final mesh to its group at most once.
C36_AtMostOneMesh ==
    \A t \in TaskIds : tasks[t].kind = "model" => tasks[t].scenes <= 1

\* the closures of world id that have found the world ready
ReadyTasks(id) ==
    {t \in TaskIds : tasks[t].kind = "world" /\ tasks[t].id = id /\ tasks[t].readies >= 1}

\* C37: a world cache entry exists only in the ready state: every 'world:<id>'
\* entry has ready = true and data whose splatUrl or panoramaUrl is non-null,
\* so getCachedWorld returns null for a world that has only produced partial
\* (not-ready) results.
C37_WorldEntryOnlyWhenReady ==
    \A id \in WorldIds :
        LET entry == cache[WorldKey(id)] IN
        /\ entry # NoEntry
              => /\ entry.ready = TRUE
                 /\ entry.data.splatUrl # NULL \/ entry.data.panoramaUrl # NULL
                 /\ getCachedWorld(id) = entry.data
        /\ ReadyTasks(id) = {} => getCachedWorld(id) = NullResult

\* a loadWorld call has resolved with a partial result (a thumbnail-less,
\* splat-less, panorama-less world) and finished, and nothing is cached
C37_Witness ==
    \E t \in TaskIds :
        /\ tasks[t].kind = "world" /\ tasks[t].pc = "done"
        /\ tasks[t].promise.state = "resolved"
        /\ tasks[t].promise.value.splatUrl = NULL
        /\ tasks[t].promise.value.panoramaUrl = NULL
        /\ ReadyTasks(tasks[t].id) = {}
        /\ cache[WorldKey(tasks[t].id)] = NoEntry
        /\ getCachedWorld(tasks[t].id) = NullResult

=============================================================================
